---------------------------- MODULE Spec2Model ----------------------------
(***************************************************************************)
(* Brand extraction service (python-extractor): the colour pipeline of     *)
(* color_extractor.py and the request handler of main.py that fans the     *)
(* logo, colour and text tasks out over one page snapshot.                 *)
(*                                                                         *)
(* Representation of Python values:                                        *)
(*  - a hex colour string "#..." is the sequence of its characters after   *)
(*    the '#'; a character is a code: 0..9 for '0'..'9', 10..15 for        *)
(*    'A'..'F' and 20..25 for 'a'..'f', so that upper-casing is an         *)
(*    operation and not the identity;                                      *)
(*  - an RGB tuple is a 3-element sequence, None is the empty sequence;    *)
(*  - a float the code compares is kept as an exact fraction [num, den];   *)
(*  - a screenshot is its pixel array after thumbnail(): a bag of pixel    *)
(*    colours (colour -> number of pixels);                                *)
(*  - style text is the sequence of its '#'-runs: each run is the maximal  *)
(*    sequence of word characters that follows a '#', here hex digits.     *)
(*                                                                         *)
(* The model starts where extract_brand_data enters its try block: the     *)
(* url is non-empty, the browser and the three extractors exist.  The      *)
(* awaited page.close() of line 124 is taken to succeed.                   *)
(***************************************************************************)
EXTENDS Integers, Sequences, FiniteSets, TLC

VARIABLES
    \* the request, extract_brand_data
    pc,                 \* Rendering, Extracting, Aggregating, Done or Failed
    rstep,              \* the rendering call that is next (or that raised)
    page,               \* the browser page: none, open or closed
    status,             \* the HTTP status of the answer, 0 while there is none
    response,           \* the ExtractionResponse returned
    gathered,           \* what asyncio.gather returned
    \* the snapshot
    image,              \* the screenshot (Image.open(screenshot_bytes))
    html_content,       \* the markup captured by page.content()
    \* the three tasks
    logo_pc, color_pc, text_pc,   \* none, created, (awaiting_dom,) done
    results,            \* the value each finished task returned
    finished,           \* the tasks in the order they finished
    \* the collaborators
    use_fallback,       \* LogoDetectorSimplified._use_fallback
    logo_fault,         \* whether a call inside extract_logo's try raised
    detection,          \* what model.predict_with_caption answered
    dom_answer,         \* what page.evaluate answered
    mistral_answer,     \* what the Mistral chat call answered
    \* ColorExtractor.extract_colors
    cpc,                \* position inside extract_colors
    screenshot_colors,  \* color_extractor.py:29
    css_colors,         \* color_extractor.py:32
    unique_colors,      \* color_extractor.py:38
    filtered_colors,    \* color_extractor.py:39
    color_result        \* the dict extract_colors returns

colorVars == <<cpc, screenshot_colors, css_colors, unique_colors,
               filtered_colors, color_result>>
requestVars == <<pc, rstep, page, status, response, gathered>>
taskVars == <<logo_pc, color_pc, text_pc, results, finished>>
envVars == <<use_fallback, logo_fault, detection, dom_answer, mistral_answer>>
vars == <<image, html_content, colorVars, requestVars, taskVars, envVars>>

-----------------------------------------------------------------------------
(* Program constants *)

NColors == 8          \* ColorExtractor.__init__(n_colors=8)
MinPixels == 100      \* if len(pixels) < 100: return []
NearWhite == 250      \* pixels.sum(axis=1) > 250 * 3
NearBlack == 10       \* pixels.sum(axis=1) < 10 * 3
DedupDistance == 20   \* _color_distance(...) < 20
MaxBrightness == 240  \* if brightness > 240: continue
MinBrightness == 20   \* if brightness < 20: continue
PaletteSize == 8      \* filtered_colors[:8]

(* Bounds of the model *)

MaxTokens == 2        \* '#'-runs in the style text of one page

-----------------------------------------------------------------------------
(* Strings of hex characters *)

None == <<>>

UpperChar(c) == IF c >= 20 THEN c - 10 ELSE c

\* str.upper()
upper(s) == [i \in 1..Len(s) |-> UpperChar(s[i])]

\* one digit of '{:02x}': lower-case
LowerHexChar(n) == IF n >= 10 THEN n + 10 ELSE n

\* '{:02x}'.format(v)
Format02x(v) == <<LowerHexChar(v \div 16), LowerHexChar(v % 16)>>

\* int(c, 16) of one character: case-insensitive
HexValue(c) == UpperChar(c)

IsUpperHex6(s) == Len(s) = 6 /\ \A i \in 1..6 : s[i] \in 0..15
IsHex6(s) == Len(s) = 6 /\ \A i \in 1..6 : s[i] \in (0..15) \cup (20..25)

BLACK == <<0, 0, 0, 0, 0, 0>>
WHITE == <<15, 15, 15, 15, 15, 15>>

FallbackColors == [primary |-> BLACK, secondary |-> WHITE,
                   palette |-> <<BLACK, WHITE>>]

-----------------------------------------------------------------------------
(* ColorExtractor helpers *)

rgb_to_hex(rgb) == upper(Format02x(rgb[1]) \o Format02x(rgb[2]) \o Format02x(rgb[3]))

hex_to_rgb(hex_color) ==
    IF Len(hex_color) # 6 THEN None
    ELSE <<16 * HexValue(hex_color[1]) + HexValue(hex_color[2]),
           16 * HexValue(hex_color[3]) + HexValue(hex_color[4]),
           16 * HexValue(hex_color[5]) + HexValue(hex_color[6])>>

Sq(x) == x * x

\* the square of np.linalg.norm(rgb1 - rgb2); 999 squared when either is None
color_distance_sq(hex1, hex2) ==
    LET rgb1 == hex_to_rgb(hex1)
        rgb2 == hex_to_rgb(hex2)
    IN  IF rgb1 = None \/ rgb2 = None THEN Sq(999)
        ELSE Sq(rgb1[1] - rgb2[1]) + Sq(rgb1[2] - rgb2[2]) + Sq(rgb1[3] - rgb2[3])

Max3(rgb) == CHOOSE m \in {rgb[1], rgb[2], rgb[3]} :
                 \A x \in {rgb[1], rgb[2], rgb[3]} : x <= m
Min3(rgb) == CHOOSE m \in {rgb[1], rgb[2], rgb[3]} :
                 \A x \in {rgb[1], rgb[2], rgb[3]} : x >= m
Sum3(rgb) == rgb[1] + rgb[2] + rgb[3]

\* 0 if max_val == 0 else (max_val - min_val) / max_val, as a fraction
get_saturation(rgb) ==
    IF Max3(rgb) = 0 THEN [num |-> 0, den |-> 1]
    ELSE [num |-> Max3(rgb) - Min3(rgb), den |-> Max3(rgb)]

\* brightness = sum(rgb) / 3, as a fraction
Brightness(rgb) == [num |-> Sum3(rgb), den |-> 3]

-----------------------------------------------------------------------------
(* _find_hex_colors: pattern #[0-9a-fA-F]{3,6}\b over the runs of the text *)

\* a run of hex digits matches whole when it has 3 to 6 digits; a longer
\* run has no word boundary after its 6th digit, a shorter one is too short
RegexMatches(run) == Len(run) >= 3 /\ Len(run) <= 6

normalize(match) ==
    IF Len(match) = 3
    THEN <<match[1], match[1], match[2], match[2], match[3], match[3]>>
    ELSE upper(match)

find_hex_colors(text) ==
    LET matches == SelectSeq(text, RegexMatches)
    IN  [i \in 1..Len(matches) |-> normalize(matches[i])]

\* style tags first, then the elements that carry a style attribute
extract_from_css(html) ==
    find_hex_colors(html.styles) \o find_hex_colors(html.inline)

-----------------------------------------------------------------------------
(* _deduplicate_colors *)

IsNearDuplicate(color, seen) ==
    \E j \in 1..Len(seen) : color_distance_sq(color, seen[j]) < Sq(DedupDistance)

RECURSIVE DedupFrom(_, _, _)
DedupFrom(colors, i, seen) ==
    IF i > Len(colors) THEN seen
    ELSE DedupFrom(colors, i + 1,
                   IF IsNearDuplicate(colors[i], seen) THEN seen
                   ELSE Append(seen, colors[i]))

deduplicate_colors(colors) == DedupFrom(colors, 1, <<>>)

-----------------------------------------------------------------------------
(* _filter_colors *)

\* the three tests of the loop body: brightness > 240, brightness < 20,
\* saturation < 0.1; a colour with no RGB value is skipped first
FilterKeeps(color) ==
    LET rgb == hex_to_rgb(color)
    IN  /\ rgb # None
        /\ ~ (Brightness(rgb).num > MaxBrightness * Brightness(rgb).den)
        /\ ~ (Brightness(rgb).num < MinBrightness * Brightness(rgb).den)
        /\ ~ (10 * get_saturation(rgb).num < get_saturation(rgb).den)

\* the filter without its saturation test
filter_colors_no_gray_test(colors) ==
    SelectSeq(colors, LAMBDA color :
        LET rgb == hex_to_rgb(color)
        IN  /\ rgb # None
            /\ ~ (Brightness(rgb).num > MaxBrightness * Brightness(rgb).den)
            /\ ~ (Brightness(rgb).num < MinBrightness * Brightness(rgb).den))

filter_colors(colors) == SelectSeq(colors, FilterKeeps)

-----------------------------------------------------------------------------
(* _select_primary_secondary *)

Abs(x) == IF x < 0 THEN -x ELSE x

\* score = saturation * (1 - abs(brightness - 128) / 128), as a fraction in
\* units of 1/384: 1 - |sum/3 - 128| / 128 = (384 - |sum - 384|) / 384
Score(color) ==
    LET rgb == hex_to_rgb(color)
        saturation == get_saturation(rgb)
    IN  [num |-> saturation.num * (3 * 128 - Abs(Sum3(rgb) - 3 * 128)),
         den |-> saturation.den]

ScoreGE(a, b) == a.num * b.den >= b.num * a.den

\* an entry put in front of the entries of its own score
InsertByScore_before_ties(sorted, color) ==
    LET p == Cardinality({j \in 1..Len(sorted) :
                             ~ ScoreGE(Score(color), Score(sorted[j]))})
    IN  SubSeq(sorted, 1, p) \o <<color>> \o SubSeq(sorted, p + 1, Len(sorted))

\* scored.sort(key=lambda x: x[1], reverse=True): a stable sort, so an entry
\* goes behind every entry already placed whose score is at least its own
InsertByScore(sorted, color) ==
    LET p == Cardinality({j \in 1..Len(sorted) :
                             ScoreGE(Score(sorted[j]), Score(color))})
    IN  SubSeq(sorted, 1, p) \o <<color>> \o SubSeq(sorted, p + 1, Len(sorted))

RECURSIVE SortFrom(_, _, _)
SortFrom(scored, i, sorted) ==
    IF i > Len(scored) THEN sorted
    ELSE SortFrom(scored, i + 1, InsertByScore(sorted, scored[i]))

SortByScore(scored) == SortFrom(scored, 1, <<>>)

Exception == [exc |-> TRUE]
IsException(v) == "exc" \in DOMAIN v

\* the top entry taken for both
select_same_twice(colors) ==
    IF Len(colors) = 0 THEN [primary |-> BLACK, secondary |-> WHITE]
    ELSE [primary |-> SortByScore(colors)[1], secondary |-> SortByScore(colors)[1]]

select_primary_secondary(colors) ==
    IF Len(colors) = 0 THEN [primary |-> BLACK, secondary |-> WHITE]
    ELSE IF Len(colors) = 1 THEN [primary |-> colors[1], secondary |-> colors[1]]
    ELSE LET scored == SortByScore(SelectSeq(colors,
                           LAMBDA color : hex_to_rgb(color) # None))
         IN  IF Len(scored) = 0 THEN Exception   \* scored[0]: IndexError
             ELSE [primary |-> scored[1],
                   secondary |-> IF Len(scored) > 1 THEN scored[2] ELSE scored[1]]

-----------------------------------------------------------------------------
(* _extract_from_screenshot *)

\* mask = ~((sum > 250 * 3) | (sum < 10 * 3))
MaskKeeps(pixel) ==
    ~ (Sum3(pixel) > NearWhite * 3 \/ Sum3(pixel) < NearBlack * 3)

\* the distinct colours of pixels[mask]
MaskedColours(img) ==
    {p \in DOMAIN img.pixels : img.pixels[p] > 0 /\ MaskKeeps(p)}

RECURSIVE PixelCount(_, _)
PixelCount(img, colours) ==
    IF colours = {} THEN 0
    ELSE LET p == CHOOSE q \in colours : TRUE
         IN  img.pixels[p] + PixelCount(img, colours \ {p})

RECURSIVE ChannelSum(_, _, _)
ChannelSum(img, colours, ch) ==
    IF colours = {} THEN 0
    ELSE LET p == CHOOSE q \in colours : TRUE
         IN  img.pixels[p] * p[ch] + ChannelSum(img, colours \ {p}, ch)

Min2(a, b) == IF a < b THEN a ELSE b

\* KMeans(n_clusters=min(n_colors, len(pixels))).fit(pixels): sklearn is not
\* part of the repository; any grouping of the masked pixels into at most
\* n_clusters clusters, in any order, is a possible outcome.  Rows that
\* repeat a centre already listed are left out: _deduplicate_colors drops
\* them whatever else the list holds.
Clusterings(img) ==
    LET K == MaskedColours(img)
        n_clusters == Min2(NColors, PixelCount(img, K))
    IN  UNION {
          { [i \in 1..m |-> {p \in K : f[p] = i}] :
              f \in {g \in [K -> 1..m] : \A i \in 1..m : \E p \in K : g[p] = i} }
          : m \in 1..Min2(Cardinality(K), n_clusters) }

\* kmeans.cluster_centers_.astype(int): the mean of each cluster, truncated
CenterAsInt(img, cluster) ==
    [ch \in 1..3 |-> ChannelSum(img, cluster, ch) \div PixelCount(img, cluster)]

extract_from_screenshot(img, clustering) ==
    IF PixelCount(img, MaskedColours(img)) < MinPixels THEN <<>>
    ELSE [i \in 1..Len(clustering) |-> rgb_to_hex(CenterAsInt(img, clustering[i]))]

-----------------------------------------------------------------------------
(* ColorExtractor.extract_colors, lines 35-57, from the two candidate lists *)

Take(s, n) == SubSeq(s, 1, Min2(n, Len(s)))

\* the fallback taken only for an empty list
ColorResult_fallback_only_when_empty(filtered) ==
    IF Len(filtered) < 1 THEN FallbackColors
    ELSE LET sel == select_primary_secondary(filtered)
         IN  [primary |-> sel.primary, secondary |-> sel.secondary,
              palette |-> Take(filtered, PaletteSize)]

\* no fallback at all
ColorResult_unguarded(filtered) ==
    [primary |-> IF Len(filtered) > 0 THEN select_primary_secondary(filtered).primary ELSE BLACK,
     secondary |-> IF Len(filtered) > 0 THEN select_primary_secondary(filtered).secondary ELSE WHITE,
     palette |-> Take(filtered, PaletteSize)]

\* the palette taken behind the list's first entry
ColorResult_palette_skips_first(filtered) ==
    IF Len(filtered) < 2 THEN FallbackColors
    ELSE LET sel == select_primary_secondary(filtered)
         IN  [primary |-> sel.primary, secondary |-> sel.secondary,
              palette |-> Take(Tail(filtered), PaletteSize)]

\* the palette taken from the list sorted by score
ColorResult_palette_by_score(filtered) ==
    IF Len(filtered) < 2 THEN FallbackColors
    ELSE LET sel == select_primary_secondary(filtered)
         IN  [primary |-> sel.primary, secondary |-> sel.secondary,
              palette |-> Take(SortByScore(filtered), PaletteSize)]

ColorResult(filtered) ==
    IF Len(filtered) < 2 THEN FallbackColors
    ELSE LET sel == select_primary_secondary(filtered)
         IN  IF IsException(sel) THEN Exception
             ELSE [primary |-> sel.primary, secondary |-> sel.secondary,
                   palette |-> Take(filtered, PaletteSize)]

extract_colors_from(screenshot, css) ==
    ColorResult(filter_colors(deduplicate_colors(screenshot \o css)))

-----------------------------------------------------------------------------
(* Python values of the response fields *)

NoneValue == [k |-> "None"]            \* None / JSON null
Str(v) == [k |-> "str", v |-> v]       \* a str
Num == [k |-> "num"]                   \* a non-zero number or True
Obj == [k |-> "obj"]                   \* a list or a dict

Unset == [unset |-> TRUE]              \* a name not bound yet

\* dict.get(key): None when the key is absent
Get(d, key) == IF key \in DOMAIN d THEN d[key] ELSE NoneValue

NullLogo == [logo |-> NoneValue, logoRaw |-> NoneValue]
NullText == [about |-> NoneValue, disclaimer |-> NoneValue]

-----------------------------------------------------------------------------
(* LogoDetectorSimplified *)

NoDetection == [bbox |-> None, confidence |-> 0]   \* return None, 0.0

MinBoxSide == 40          \* if box_width < 40 or box_height < 40
MinConfidence == 15       \* confidence > 0.15, in hundredths
FallbackConfidence == 50  \* return logo_region, 0.5, in hundredths

\* int(w * 0.02), int(h * 0.02), int(w * 0.30), int(h * 0.20)
detect_logo_fallback(img) ==
    [bbox |-> <<(img.size[1] * 2) \div 100, (img.size[2] * 2) \div 100,
                (img.size[1] * 30) \div 100, (img.size[2] * 20) \div 100>>,
     confidence |-> FallbackConfidence]

\* det is the answer of model.predict_with_caption: it raised, it found
\* nothing, or its best box with that box's confidence
detect_logo(img, det, fallback) ==
    IF fallback THEN detect_logo_fallback(img)
    ELSE IF det.kind = "raise" THEN NoDetection
    ELSE IF det.kind = "empty" THEN NoDetection
    ELSE LET box_width == det.bbox[3] - det.bbox[1]
             box_height == det.bbox[4] - det.bbox[2]
             box_area == box_width * box_height
             img_area == img.size[1] * img.size[2]
         IN  IF 2 * box_area > img_area THEN NoDetection    \* box_area > img_area * 0.5
             ELSE IF box_width < MinBoxSide \/ box_height < MinBoxSide THEN NoDetection
             ELSE [bbox |-> det.bbox, confidence |-> det.confidence]

\* extract_logo: if logo_bbox and confidence > 0.15
LogoAccepted(d) == d.bbox # None /\ d.confidence > MinConfidence

\* find_logo_url_from_dom: element if element else None, None on any error
find_logo_url_from_dom(answer) ==
    IF answer.kind = "url" THEN Str("logo url") ELSE NoneValue

\* the dict extract_logo returns once the detection was accepted
LogoFound(bbox, answer) ==
    [logo |-> [k |-> "str", v |-> "data:image/png;base64", bbox |-> bbox],
     logoRaw |-> find_logo_url_from_dom(answer)]

-----------------------------------------------------------------------------
(* TextExtractor *)

MinTextLen == 100         \* len(cleaned_text) < 100
MinAboutLen == 60         \* 60 <= len(desc) <= 400
MaxAboutLen == 400
MinDisclaimerLen == 60    \* 60 <= len(text) <= 1500
MaxDisclaimerLen == 1500
DisclaimerCut == 1000     \* text[:1000]

\* for tag in soup([...]): tag.decompose()
Decompose(html, tags) ==
    IF "footer" \in tags THEN [html EXCEPT !.has_footer = FALSE, !.footer = <<>>]
    ELSE html

RECURSIVE FirstDisclaimer(_, _)
FirstDisclaimer(elements, i) ==
    IF i > Len(elements) THEN NoneValue
    ELSE IF /\ elements[i].keyword
            /\ MinDisclaimerLen <= elements[i].len
            /\ elements[i].len <= MaxDisclaimerLen
         THEN [k |-> "str", v |-> "footer text", len |-> Min2(elements[i].len, DisclaimerCut)]
         ELSE FirstDisclaimer(elements, i + 1)

extract_fallback(html) ==
    LET soup == Decompose(html, {"script", "style", "nav", "header", "footer"})
        about == IF /\ soup.meta_len > 0
                    /\ MinAboutLen <= soup.meta_len
                    /\ soup.meta_len <= MaxAboutLen
                 THEN [k |-> "str", v |-> "meta description", len |-> soup.meta_len]
                 ELSE NoneValue
        disclaimer == IF soup.has_footer THEN FirstDisclaimer(soup.footer, 1)
                      ELSE NoneValue
    IN  [about |-> about, disclaimer |-> disclaimer]

\* _extract_with_mistral: the API error, the JSON error and the not-a-dict
\* error are all one raise; otherwise the two fields as the model gave them
TextExtractor_extract_text(html, answer) ==
    IF html.text_len < MinTextLen THEN NullText
    ELSE IF answer.kind = "raise" THEN extract_fallback(html)
    ELSE [about |-> answer.about, disclaimer |-> answer.disclaimer]

\* len(x or ''): TypeError for a true value that has no length
LenRaises(v) == v.k = "num"

-----------------------------------------------------------------------------
(* The three tasks of main.py: each body inside its try / except Exception *)

\* extract_logo up to the call of find_logo_url_from_dom: the result when the
\* task ends there, Unset when it goes on to ask the page
extract_logo_first(img, fault, det, fallback) ==
    IF fault THEN NullLogo                                 \* except Exception
    ELSE IF LogoAccepted(detect_logo(img, det, fallback)) THEN Unset
    ELSE NullLogo

\* extract_colors of main.py, given the candidate lists of the pipeline
extract_colors(img, screenshot, css) ==
    IF ~ img.decodable THEN FallbackColors                 \* Image.open raised
    ELSE IF IsException(extract_colors_from(screenshot, css)) THEN FallbackColors
    ELSE extract_colors_from(screenshot, css)

\* extract_text of main.py
extract_text(html, answer) ==
    LET text_blocks == TextExtractor_extract_text(html, answer)
    IN  IF LenRaises(Get(text_blocks, "about")) \/ LenRaises(Get(text_blocks, "disclaimer"))
        THEN NullText                                      \* except Exception
        ELSE text_blocks

-----------------------------------------------------------------------------
(* extract_brand_data after the snapshot *)

Tasks == {"logo", "color", "text"}

\* the results in the order the tasks finished
gather_by_completion(res, order) == <<res[order[1]], res[order[2]], res[order[3]]>>

\* asyncio.gather(logo_task, color_task, text_task, return_exceptions=True):
\* the results in the order of the arguments
gather(res, order) == <<res["logo"], res["color"], res["text"]>>

\* lines 127-137
OrFallback(result, fallback) == IF IsException(result) THEN fallback ELSE result

\* Optional[str]: None or a str
IsOptionalStr(v) == v.k \in {"None", "str"}

\* pydantic's validation of ExtractionResponse(...): colors is Dict[str, Any]
Validates(r) ==
    /\ IsOptionalStr(r.logo)
    /\ IsOptionalStr(r.logoRaw)
    /\ IsOptionalStr(r.about)
    /\ IsOptionalStr(r.disclaimer)

\* lines 127-145: the keyword arguments of ExtractionResponse
BuildResponse(g) ==
    LET logo_result == OrFallback(g[1], NullLogo)
        colors_result == OrFallback(g[2], FallbackColors)
        text_result == OrFallback(g[3], NullText)
    IN  [logo |-> Get(logo_result, "logo"),
         logoRaw |-> Get(logo_result, "logoRaw"),
         colors |-> colors_result,
         about |-> Get(text_result, "about"),
         disclaimer |-> Get(text_result, "disclaimer")]

-----------------------------------------------------------------------------
(* Inputs of the colour pipeline *)

\* pixel colours of the screenshots: near-white (masked out) and two reds
\* one step apart, whose common cluster has a fractional mean
PixelColours == {<<255, 255, 255>>, <<127, 20, 20>>, <<128, 20, 20>>}
PixelCounts == {0, 40, 60}

\* page.screenshot(full_page=False) of a page that browser.new_page() opened
\* with the default viewport
ViewportSize == <<1280, 720>>

\* a screenshot holds at least one pixel
Images == {[decodable |-> TRUE, size |-> ViewportSize, pixels |-> f] :
             f \in {g \in [PixelColours -> PixelCounts] : \E p \in PixelColours : g[p] > 0}}

\* '#'-runs of the style text
Runs == {
    <<25, 0, 0>>,                 \* #f00
    <<15, 15, 0, 0, 0, 0>>,       \* #FF0000
    <<25, 25, 1, 4, 0, 0>>,       \* #ff1400, at distance 20 from #FF0000
    <<0, 10, 15>>,                \* #0AF
    <<1, 20, 2, 21, 3, 22>>,      \* #1a2b3c
    <<20, 21, 22, 23>>,           \* #abcd
    <<12, 8, 11, 4, 11, 4>>,      \* #C8B4B4, saturation 0.1
    <<12, 8, 11, 5, 11, 5>>,      \* #C8B5B5, saturation 0.095
    <<15, 15, 15, 15, 13, 3>>,    \* #FFFFD3, brightness 240.33
    <<1, 2, 3, 4, 5, 6, 7>>,      \* #1234567
    <<0, 15, 0>>                  \* #0F0, the score of #f00
}

RECURSIVE SeqsUpTo(_, _)
SeqsUpTo(S, n) ==
    IF n = 0 THEN {<<>>}
    ELSE SeqsUpTo(S, n - 1) \cup
         {Append(s, x) : s \in {t \in SeqsUpTo(S, n - 1) : Len(t) = n - 1}, x \in S}

InlineStyles == {<<>>, <<<<0, 10, 15>>>>, <<<<2, 8, 0, 10, 0, 10>>>>}  \* none, #0AF, #280A0A

Pages == {[styles |-> st, inline |-> il, text_len |-> 500, meta_len |-> 0,
           has_footer |-> FALSE, footer |-> <<>>] :
             st \in SeqsUpTo(Runs, MaxTokens), il \in InlineStyles}

-----------------------------------------------------------------------------
(* Inputs of the request *)

NoSnapshot == [captured |-> FALSE]

\* screenshots: one that cannot be decoded, one all near-white, one with two
\* reds
Screenshots ==
    {[decodable |-> FALSE, size |-> ViewportSize,
      pixels |-> [p \in PixelColours |-> 0]]}
    \cup {img \in Images :
            \/ img.pixels = (<<255, 255, 255>> :> 60 @@ <<127, 20, 20>> :> 0 @@ <<128, 20, 20>> :> 0)
            \/ img.pixels = (<<255, 255, 255>> :> 0 @@ <<127, 20, 20>> :> 40 @@ <<128, 20, 20>> :> 60)}

StyleTexts == {
    <<>>,
    << <<25, 0, 0>>, <<0, 10, 15>> >>,                     \* #f00 #0AF
    << <<1, 20, 2, 21, 3, 22>>, <<20, 21, 22, 23>> >>,     \* #1a2b3c #abcd
    << <<15, 15, 0, 0, 0, 0>>, <<0, 0, 10, 10, 15, 15>> >>, \* #FF0000 #00AAFF
    \* #F00 #0F0 #00F #FF0 #F0F #0FF #800 #080 #008: nine colours that all
    \* survive the deduplication and the filter
    << <<15, 0, 0>>, <<0, 15, 0>>, <<0, 0, 15>>, <<15, 15, 0>>, <<15, 0, 15>>,
       <<0, 15, 15>>, <<8, 0, 0>>, <<0, 8, 0>>, <<0, 0, 8>> >>,
    \* #F00 #0F0 #00F #800 #080 #008 #FF0 #F0F #880: nine survivors, the last
    \* one of the highest score
    << <<15, 0, 0>>, <<0, 15, 0>>, <<0, 0, 15>>, <<8, 0, 0>>, <<0, 8, 0>>,
       <<0, 0, 8>>, <<15, 15, 0>>, <<15, 0, 15>>, <<8, 8, 0>> >>
}

Footers == {<<>>, <<[keyword |-> FALSE, len |-> 200], [keyword |-> TRUE, len |-> 1200]>>}

\* every style text on one page body, and every page body with one style text
WebPages ==
    {[styles |-> st, inline |-> <<>>, text_len |-> 500, meta_len |-> 100,
      has_footer |-> FALSE, footer |-> <<>>] : st \in StyleTexts}
    \cup
    {[styles |-> << <<25, 0, 0>>, <<0, 10, 15>> >>, inline |-> <<>>,
      text_len |-> tl, meta_len |-> ml, has_footer |-> ft # <<>>, footer |-> ft] :
        tl \in {50, 500}, ml \in {0, 100}, ft \in Footers}

Detections == {
    [kind |-> "raise"],
    [kind |-> "empty"],
    [kind |-> "box", bbox |-> <<100, 50, 300, 150>>, confidence |-> 90],
    [kind |-> "box", bbox |-> <<100, 50, 300, 150>>, confidence |-> 10],
    [kind |-> "box", bbox |-> <<0, 0, 1280, 400>>, confidence |-> 90],
    [kind |-> "box", bbox |-> <<10, 10, 40, 200>>, confidence |-> 90],
    [kind |-> "box", bbox |-> <<0, 0, 1280, 360>>, confidence |-> 90],   \* half of 1280 x 720
    [kind |-> "box", bbox |-> <<10, 10, 50, 50>>, confidence |-> 16]     \* 40 x 40
}

\* images handed to detect_logo: the viewport's size and smaller ones, on both
\* sides of the sizes where the heuristic region is 40 px wide or high
LogoImageSizes == {<<w, h>> : w \in {100, 142, 1280}, h \in {100, 219, 224, 720}}

LogoImages ==
    {[decodable |-> TRUE, size |-> sz,
      pixels |-> (<<255, 255, 255>> :> 60 @@ <<127, 20, 20>> :> 40 @@ <<128, 20, 20>> :> 0)] :
        sz \in LogoImageSizes}

DomAnswers == {[kind |-> "raise"], [kind |-> "null"], [kind |-> "url"]}

MistralAnswers ==
    {[kind |-> "raise"]} \cup
    {[kind |-> "json", about |-> a, disclaimer |-> d] :
        a \in {NoneValue, Str("about"), Num, Obj}, d \in {NoneValue, Str("disclaimer")}}

-----------------------------------------------------------------------------
(* Initial states *)

ColorIdle ==
    /\ cpc = "start"
    /\ screenshot_colors = <<>>
    /\ css_colors = <<>>
    /\ unique_colors = <<>>
    /\ filtered_colors = <<>>
    /\ color_result = [pending |-> TRUE]

\* the state at line 105, the url and the browser checked
RequestIdle ==
    /\ pc = "Rendering"
    /\ rstep = "new_page"
    /\ page = "none"
    /\ status = 0
    /\ response = Unset
    /\ gathered = Unset
    /\ logo_pc = "none" /\ color_pc = "none" /\ text_pc = "none"
    /\ results = [t \in Tasks |-> Unset]
    /\ finished = <<>>
    /\ logo_fault = FALSE
    /\ detection = Unset
    /\ dom_answer = Unset
    /\ mistral_answer = Unset

Init ==
    /\ image = NoSnapshot
    /\ html_content = NoSnapshot
    /\ use_fallback \in BOOLEAN
    /\ RequestIdle
    /\ ColorIdle

\* extract_colors alone, on any screenshot and markup
InitColor ==
    /\ image \in Images
    /\ html_content \in Pages
    /\ use_fallback = FALSE
    /\ RequestIdle
    /\ ColorIdle

\* extract_logo alone, on an image of any size, the model loaded or not
InitLogo ==
    /\ image \in LogoImages
    /\ html_content = NoSnapshot
    /\ use_fallback \in BOOLEAN
    /\ pc = "Extracting"
    /\ rstep = "done"
    /\ page = "open"
    /\ status = 0
    /\ response = Unset
    /\ gathered = Unset
    /\ logo_pc = "created" /\ color_pc = "none" /\ text_pc = "none"
    /\ results = [t \in Tasks |-> Unset]
    /\ finished = <<>>
    /\ logo_fault = FALSE
    /\ detection = Unset
    /\ dom_answer = Unset
    /\ mistral_answer = Unset
    /\ ColorIdle

-----------------------------------------------------------------------------
(* The colour pipeline, ColorExtractor.extract_colors, step by step *)

\* lines 29-32
ExtractCandidates ==
    /\ cpc = "start"
    /\ \E clustering \in Clusterings(image) \cup {<<>>} :
          /\ (clustering = <<>>) = (MaskedColours(image) = {})
          /\ screenshot_colors' = extract_from_screenshot(image, clustering)
    /\ css_colors' = extract_from_css(html_content)
    /\ cpc' = "candidates"
    /\ UNCHANGED <<image, html_content, unique_colors, filtered_colors, color_result,
                   requestVars, taskVars, envVars>>

\* lines 35-38
Deduplicate ==
    /\ cpc = "candidates"
    /\ unique_colors' = deduplicate_colors(screenshot_colors \o css_colors)
    /\ cpc' = "unique"
    /\ UNCHANGED <<image, html_content, screenshot_colors, css_colors,
                   filtered_colors, color_result, requestVars, taskVars, envVars>>

\* line 39
Filter ==
    /\ cpc = "unique"
    /\ filtered_colors' = filter_colors(unique_colors)
    /\ cpc' = "filtered"
    /\ UNCHANGED <<image, html_content, screenshot_colors, css_colors,
                   unique_colors, color_result, requestVars, taskVars, envVars>>

\* lines 41-57
Select ==
    /\ cpc = "filtered"
    /\ color_result' = ColorResult(filtered_colors)
    /\ cpc' = "returned"
    /\ UNCHANGED <<image, html_content, screenshot_colors, css_colors,
                   unique_colors, filtered_colors, requestVars, taskVars, envVars>>

NextColor == ExtractCandidates \/ Deduplicate \/ Filter \/ Select

SpecColor == InitColor /\ [][NextColor]_vars

-----------------------------------------------------------------------------
(* The request, extract_brand_data *)

\* the exception logged and not raised again
RaiseHTTP500_swallowed ==
    /\ pc' = "Extracting"
    /\ status' = 0
    /\ response' = Unset

\* except Exception as e: raise HTTPException(status_code=500, ...)
RaiseHTTP500 ==
    /\ pc' = "Failed"
    /\ status' = 500
    /\ response' = [error |-> "Extraction failed"]

RenderSteps == <<"new_page", "goto", "wait_for_timeout", "screenshot", "content", "done">>

StepAfter(step) ==
    RenderSteps[1 + CHOOSE i \in 1..Len(RenderSteps) : RenderSteps[i] = step]

\* page = await browser.new_page()
NewPage ==
    /\ pc = "Rendering" /\ rstep = "new_page"
    /\ page' = "open"
    /\ rstep' = StepAfter(rstep)
    /\ UNCHANGED <<pc, status, response, gathered, image, html_content,
                   colorVars, taskVars, envVars>>

\* await page.goto(url, ...), then await page.wait_for_timeout(1000)
Navigate ==
    /\ pc = "Rendering" /\ rstep \in {"goto", "wait_for_timeout"}
    /\ rstep' = StepAfter(rstep)
    /\ UNCHANGED <<pc, page, status, response, gathered, image, html_content,
                   colorVars, taskVars, envVars>>

\* screenshot_bytes = await page.screenshot(full_page=False)
Screenshot ==
    /\ pc = "Rendering" /\ rstep = "screenshot"
    /\ image' \in Screenshots
    /\ rstep' = StepAfter(rstep)
    /\ UNCHANGED <<pc, page, status, response, gathered, html_content,
                   colorVars, taskVars, envVars>>

\* html_content = await page.content(); lines 116-121 make the three
\* coroutines and hand them to asyncio.gather
Content ==
    /\ pc = "Rendering" /\ rstep = "content"
    /\ html_content' \in WebPages
    /\ rstep' = StepAfter(rstep)
    /\ pc' = "Extracting"
    /\ logo_pc' = "created" /\ color_pc' = "created" /\ text_pc' = "created"
    /\ UNCHANGED <<page, status, response, gathered, image, colorVars,
                   results, finished, envVars>>

\* any of the five awaited calls of lines 107-113 raises
RenderError ==
    /\ pc = "Rendering" /\ rstep # "done"
    /\ RaiseHTTP500
    /\ UNCHANGED <<rstep, page, gathered, image, html_content, colorVars,
                   taskVars, envVars>>

Finish(task, value) ==
    /\ results' = [results EXCEPT ![task] = value]
    /\ finished' = Append(finished, task)

\* extract_logo up to its first suspension
LogoDetect ==
    /\ pc = "Extracting" /\ logo_pc = "created"
    /\ \E fault \in BOOLEAN :
       \E det \in IF fault \/ use_fallback THEN {Unset} ELSE Detections :
          /\ logo_fault' = fault
          /\ detection' = det
          /\ LET first == extract_logo_first(image, fault, det, use_fallback)
             IN  IF first = Unset
                 THEN /\ logo_pc' = "awaiting_dom"
                      /\ UNCHANGED <<results, finished>>
                 ELSE /\ logo_pc' = "done"
                      /\ Finish("logo", first)
    /\ UNCHANGED <<requestVars, image, html_content, colorVars, color_pc, text_pc,
                   use_fallback, dom_answer, mistral_answer>>

\* extract_logo from the answer of page.evaluate to its return
LogoDom ==
    /\ pc = "Extracting" /\ logo_pc = "awaiting_dom"
    /\ \E answer \in DomAnswers :
          /\ dom_answer' = answer
          /\ Finish("logo", LogoFound(detect_logo(image, detection, use_fallback).bbox, answer))
    /\ logo_pc' = "done"
    /\ UNCHANGED <<requestVars, image, html_content, colorVars, color_pc, text_pc,
                   use_fallback, logo_fault, detection, mistral_answer>>

\* extract_colors: no suspension from its first line to its return
ColorRun ==
    /\ pc = "Extracting" /\ color_pc = "created"
    /\ IF image.decodable
       THEN /\ \E clustering \in Clusterings(image) \cup {<<>>} :
                  /\ (clustering = <<>>) = (MaskedColours(image) = {})
                  /\ screenshot_colors' = extract_from_screenshot(image, clustering)
            /\ css_colors' = extract_from_css(html_content)
            /\ unique_colors' = deduplicate_colors(screenshot_colors' \o css_colors')
            /\ filtered_colors' = filter_colors(unique_colors')
            /\ color_result' = ColorResult(filtered_colors')
            /\ cpc' = "returned"
       ELSE /\ cpc' = "raised"
            /\ UNCHANGED <<screenshot_colors, css_colors, unique_colors,
                           filtered_colors, color_result>>
    /\ Finish("color", extract_colors(image, screenshot_colors', css_colors'))
    /\ color_pc' = "done"
    /\ UNCHANGED <<requestVars, image, html_content, logo_pc, text_pc, envVars>>

\* extract_text: the Mistral client call blocks, so no suspension either
TextRun ==
    /\ pc = "Extracting" /\ text_pc = "created"
    /\ \E answer \in IF html_content.text_len < MinTextLen THEN {Unset} ELSE MistralAnswers :
          /\ mistral_answer' = answer
          /\ Finish("text", extract_text(html_content, answer))
    /\ text_pc' = "done"
    /\ UNCHANGED <<requestVars, image, html_content, colorVars, logo_pc, color_pc,
                   use_fallback, logo_fault, detection, dom_answer>>

AllDone == logo_pc = "done" /\ color_pc = "done" /\ text_pc = "done"

\* await asyncio.gather(...) returns
Gather ==
    /\ pc = "Extracting" /\ AllDone
    /\ gathered' = gather(results, finished)
    /\ pc' = "Aggregating"
    /\ UNCHANGED <<rstep, page, status, response, image, html_content, colorVars,
                   taskVars, envVars>>

\* await page.close()
ClosePage ==
    /\ pc = "Aggregating" /\ page = "open"
    /\ page' = "closed"
    /\ UNCHANGED <<pc, rstep, status, response, gathered, image, html_content,
                   colorVars, taskVars, envVars>>

\* lines 127-145, and 147-149 when ExtractionResponse(...) raises
Aggregate ==
    /\ pc = "Aggregating" /\ page = "closed"
    /\ IF Validates(BuildResponse(gathered))
       THEN /\ response' = BuildResponse(gathered)
            /\ status' = 200
            /\ pc' = "Done"
       ELSE RaiseHTTP500
    /\ UNCHANGED <<rstep, page, gathered, image, html_content, colorVars,
                   taskVars, envVars>>

Next ==
    \/ NewPage \/ Navigate \/ Screenshot \/ Content \/ RenderError
    \/ LogoDetect \/ LogoDom \/ ColorRun \/ TextRun
    \/ Gather \/ ClosePage \/ Aggregate

Spec == Init /\ [][Next]_vars

\* extract_logo of main.py as a process of its own
NextLogo == LogoDetect \/ LogoDom

SpecLogo == InitLogo /\ [][NextLogo]_vars

-----------------------------------------------------------------------------
(* Properties of the colour pipeline, checked under SpecColor *)

Returned == cpc = "returned"

\* C6 as stated: in every colour result, primary = secondary exactly when one
\* candidate survived filtering, and two or more survivors give distinct
\* primary and secondary.
C6_EqualIffOneSurvivor ==
    Returned =>
        /\ (color_result.primary = color_result.secondary) <=> (Len(filtered_colors) = 1)
        /\ Len(filtered_colors) >= 2 => color_result.primary # color_result.secondary

\* C6 amended: primary and secondary are distinct in every colour result; two
\* or more survivors give two different survivors, and exactly one survivor
\* gives the black/white result, never that survivor twice.
C6_AlwaysDistinct ==
    Returned =>
        /\ color_result.primary # color_result.secondary
        /\ Len(filtered_colors) >= 2 =>
              /\ \E i, j \in 1..Len(filtered_colors) :
                    /\ i # j
                    /\ color_result.primary = filtered_colors[i]
                    /\ color_result.secondary = filtered_colors[j]
        /\ Len(filtered_colors) = 1 => color_result = FallbackColors

C6_Witness ==
    /\ Returned
    /\ Len(filtered_colors) = 1
    /\ color_result.primary # filtered_colors[1]

C6_WitnessTwo ==
    /\ Returned
    /\ Len(filtered_colors) >= 3
    /\ color_result.primary # filtered_colors[1]

AllNearWhite(img) ==
    \A p \in DOMAIN img.pixels : img.pixels[p] > 0 => Sum3(p) > 750

\* C7: fewer than two survivors give exactly the black/white result, and so
\* does an all near-white screenshot whose markup adds no surviving colour.
C7_FallbackBelowTwo ==
    Returned =>
        /\ Len(filtered_colors) < 2 => color_result = FallbackColors
        /\ (AllNearWhite(image) /\ filter_colors(css_colors) = <<>>) =>
              color_result = FallbackColors

C7_Witness ==
    /\ Returned
    /\ AllNearWhite(image)
    /\ css_colors # <<>>
    /\ filter_colors(css_colors) = <<>>
    /\ color_result = FallbackColors

C7_WitnessOne ==
    /\ Returned
    /\ Len(filtered_colors) = 1
    /\ screenshot_colors # <<>>
    /\ color_result = FallbackColors

Deduplicated == cpc \in {"unique", "filtered", "returned"}

\* C8: any two distinct entries the deduplication keeps are at Euclidean RGB
\* distance of at least 20: they are never the same string, and when both
\* have an RGB value the values are 20 or more apart.
C8_KeptAreTwentyApart ==
    Deduplicated =>
        \A i, j \in 1..Len(unique_colors) :
            i # j =>
                /\ unique_colors[i] # unique_colors[j]
                /\ (hex_to_rgb(unique_colors[i]) # None /\ hex_to_rgb(unique_colors[j]) # None)
                      => Sq(hex_to_rgb(unique_colors[i])[1] - hex_to_rgb(unique_colors[j])[1])
                       + Sq(hex_to_rgb(unique_colors[i])[2] - hex_to_rgb(unique_colors[j])[2])
                       + Sq(hex_to_rgb(unique_colors[i])[3] - hex_to_rgb(unique_colors[j])[3])
                       >= 20 * 20

\* what does hold of the deduplication: entries that have an RGB value are
\* 20 or more apart
C8_ParsedKeptAreTwentyApart ==
    Deduplicated =>
        \A i, j \in 1..Len(unique_colors) :
            (i # j /\ hex_to_rgb(unique_colors[i]) # None /\ hex_to_rgb(unique_colors[j]) # None)
                => Sq(hex_to_rgb(unique_colors[i])[1] - hex_to_rgb(unique_colors[j])[1])
                 + Sq(hex_to_rgb(unique_colors[i])[2] - hex_to_rgb(unique_colors[j])[2])
                 + Sq(hex_to_rgb(unique_colors[i])[3] - hex_to_rgb(unique_colors[j])[3])
                 >= 20 * 20

RECURSIVE IsSubsequence(_, _)
IsSubsequence(a, b) ==
    IF a = <<>> THEN TRUE
    ELSE IF b = <<>> THEN FALSE
    ELSE IF Head(a) = Head(b) THEN IsSubsequence(Tail(a), Tail(b))
    ELSE IsSubsequence(a, Tail(b))

Filtered == cpc \in {"filtered", "returned"}

\* C9: every colour that survives the filter has brightness (mean of R, G, B)
\* within [20, 240] and saturation (max-min)/max of at least 0.1, and the
\* survivors keep their input order.
C9_SurvivorsInRange ==
    Filtered =>
        /\ \A i \in 1..Len(filtered_colors) :
              LET rgb == hex_to_rgb(filtered_colors[i])
              IN  /\ rgb # None
                  /\ Sum3(rgb) >= 3 * 20
                  /\ Sum3(rgb) <= 3 * 240
                  /\ Max3(rgb) > 0
                  /\ 10 * (Max3(rgb) - Min3(rgb)) >= Max3(rgb)
        /\ IsSubsequence(filtered_colors, unique_colors)

C9_Witness ==
    /\ cpc = "filtered"
    /\ Len(filtered_colors) >= 2
    /\ Len(filtered_colors) < Len(unique_colors)
    /\ \E i \in 1..Len(unique_colors) :
          /\ hex_to_rgb(unique_colors[i]) # None
          /\ ~ FilterKeeps(unique_colors[i])

-----------------------------------------------------------------------------
(* Properties of the request, checked under Spec *)

Done == pc = "Done"

\* the snapshot was captured and the request has ended
Ended == pc \in {"Done", "Failed"} /\ rstep = "done"

\* what each task returns, from the snapshot and the collaborators' answers
ExpectedLogo ==
    IF extract_logo_first(image, logo_fault, detection, use_fallback) = Unset
    THEN LogoFound(detect_logo(image, detection, use_fallback).bbox, dom_answer)
    ELSE extract_logo_first(image, logo_fault, detection, use_fallback)

ExpectedColors == extract_colors(image, screenshot_colors, css_colors)

ExpectedText == extract_text(html_content, mistral_answer)

ExpectedResponse ==
    [logo |-> ExpectedLogo.logo, logoRaw |-> ExpectedLogo.logoRaw,
     colors |-> ExpectedColors,
     about |-> ExpectedText.about, disclaimer |-> ExpectedText.disclaimer]

\* a task failed: an exception reached the except clause of its function
LogoFailed == logo_pc = "done" /\ logo_fault
ColorFailed == color_pc = "done" /\ cpc = "raised"
TextFailed ==
    /\ text_pc = "done"
    /\ mistral_answer # Unset
    /\ mistral_answer.kind = "json"
    /\ (LenRaises(mistral_answer.about) \/ LenRaises(mistral_answer.disclaimer))

\* C1: whenever a request reaches Done, whatever tasks succeeded or failed,
\* the response carries a colors object whose primary and secondary are
\* #RRGGBB hex strings and whose palette has between 1 and 8 entries.
C1_ColorsAlwaysComplete ==
    Done =>
        /\ DOMAIN response.colors = {"primary", "secondary", "palette"}
        /\ IsHex6(response.colors.primary)
        /\ IsHex6(response.colors.secondary)
        /\ Len(response.colors.palette) >= 1
        /\ Len(response.colors.palette) <= 8

C1_Witness ==
    /\ Done
    /\ LogoFailed /\ ColorFailed /\ TextFailed
    /\ response.colors = FallbackColors

C1_WitnessPipeline ==
    /\ Done
    /\ ~ LogoFailed /\ ~ ColorFailed /\ ~ TextFailed
    /\ response.colors # FallbackColors

\* C2: a request fails (HTTP 500) only when the rendering step fails: once
\* the screenshot and the markup are captured nothing makes it fail.
C2_OnlyRenderingFails ==
    (pc = "Failed" \/ status = 500) => rstep # "done"

\* the failure C2 misses: a list or dict in a text field of the model's JSON
MalformedText ==
    /\ mistral_answer # Unset
    /\ mistral_answer.kind = "json"
    /\ ~ LenRaises(mistral_answer.about)
    /\ (mistral_answer.about = Obj \/ mistral_answer.disclaimer = Obj)

\* C3: a failure inside one task is replaced by that task's fallback, leaves
\* the other two results in the response what they are without it, and does
\* not fail the request.
C3_TaskFailureIsolated ==
    Ended =>
        /\ LogoFailed =>
              /\ Done
              /\ response.logo = NoneValue /\ response.logoRaw = NoneValue
              /\ response.colors = ExpectedColors
              /\ response.about = ExpectedText.about
              /\ response.disclaimer = ExpectedText.disclaimer
        /\ ColorFailed =>
              /\ Done
              /\ response.colors = FallbackColors
              /\ response.logo = ExpectedLogo.logo /\ response.logoRaw = ExpectedLogo.logoRaw
              /\ response.about = ExpectedText.about
              /\ response.disclaimer = ExpectedText.disclaimer
        /\ TextFailed =>
              /\ Done
              /\ response.about = NoneValue /\ response.disclaimer = NoneValue
              /\ response.logo = ExpectedLogo.logo /\ response.logoRaw = ExpectedLogo.logoRaw
              /\ response.colors = ExpectedColors

\* C3 holds of every request whose text fields are not a list or a dict
C3_IsolatedButForMalformedText ==
    (Ended /\ ~ MalformedText) => C3_TaskFailureIsolated

\* C4: aggregation happens only after all three tasks have completed, and
\* the outcome is fixed by the snapshot and the collaborators' answers: each
\* field comes from its own task, whatever the order the tasks finished in.
C4_OrderIrrelevant ==
    /\ (pc \in {"Aggregating", "Done"} \/ Ended) => (AllDone /\ Len(finished) = 3)
    /\ Done => response = ExpectedResponse
    /\ Ended => (Done <=> Validates(ExpectedResponse))

C4_Witness ==
    /\ Done
    /\ finished = <<"text", "color", "logo">>
    /\ response.logo # NoneValue
    /\ response.about # NoneValue
    /\ response.colors # FallbackColors

C4_WitnessFinishedBeforeOthersStart ==
    /\ color_pc = "done" /\ logo_pc = "created" /\ text_pc = "created"

TasksNotStarted == logo_pc = "none" /\ color_pc = "none" /\ text_pc = "none"

\* C5: a request moves only along Rendering -> Extracting -> Aggregating ->
\* Done, or to Failed, where it stays; a rendering call that raises ends the
\* request as Failed, and then no task was or will be started.
C5_RequestPath ==
    [][ /\ pc = "Rendering" => pc' \in {"Rendering", "Extracting", "Failed"}
        /\ pc = "Extracting" => pc' \in {"Extracting", "Aggregating", "Failed"}
        /\ pc = "Aggregating" => pc' \in {"Aggregating", "Done", "Failed"}
        /\ pc \in {"Done", "Failed"} => pc' = pc
        /\ (pc = "Rendering" /\ rstep' = rstep) => pc' = "Failed"
        /\ (pc' = "Failed" /\ rstep' # "done") => TasksNotStarted'
        /\ pc' = "Rendering" => TasksNotStarted' ]_vars

C5_Witness ==
    /\ pc = "Failed"
    /\ rstep = "screenshot"
    /\ page = "open"
    /\ TasksNotStarted

AllUpper(colors) ==
    /\ IsUpperHex6(colors.primary)
    /\ IsUpperHex6(colors.secondary)
    /\ \A i \in 1..Len(colors.palette) : IsUpperHex6(colors.palette[i])

\* C10: every colour string of a response is upper-case #RRGGBB whatever the
\* case or length of the markup token it came from; "#0AF" gives "#00AAFF"
\* and "#1a2b3c" gives "#1A2B3C".
C10_ResponseColorsUppercase ==
    /\ normalize(<<0, 10, 15>>) = <<0, 0, 10, 10, 15, 15>>
    /\ normalize(<<1, 20, 2, 21, 3, 22>>) = <<1, 10, 2, 11, 3, 12>>
    /\ Done => AllUpper(response.colors)

-----------------------------------------------------------------------------
(* Properties of the logo task, checked under SpecLogo and under Spec *)

\* the box a non-null logo was cropped from keeps the three limits
BoxWithinContract(img, logo, d) ==
    LET bbox == logo.bbox
        box_width == bbox[3] - bbox[1]
        box_height == bbox[4] - bbox[2]
    IN  /\ bbox = d.bbox
        /\ 2 * (box_width * box_height) <= img.size[1] * img.size[2]
        /\ box_width >= 40
        /\ box_height >= 40
        /\ d.confidence > 15                 \* hundredths

LogoReturned == logo_pc = "done" /\ results["logo"].logo # NoneValue

C11_ModelPathWithinContract ==
    (LogoReturned /\ ~ use_fallback) =>
        BoxWithinContract(image, results["logo"].logo,
                          detect_logo(image, detection, use_fallback))

\* a logo from the heuristic, from the model, and one whose box is exactly at
\* a limit
C11_WitnessHeuristic == LogoReturned /\ use_fallback

C11_WitnessModel ==
    /\ LogoReturned /\ ~ use_fallback
    /\ results["logo"].logo.bbox = <<10, 10, 50, 50>>

-----------------------------------------------------------------------------
(* Properties of the text task, checked under Spec *)

\* the elements of the page's footer that carry a disclaimer keyword in a text
\* of 60 to 1500 characters
DisclaimerElements(html) ==
    IF html.has_footer
    THEN {i \in DOMAIN html.footer :
            /\ html.footer[i].keyword
            /\ html.footer[i].len >= 60
            /\ html.footer[i].len <= 1500}
    ELSE {}

SummarizerFailed == text_pc = "done" /\ mistral_answer = [kind |-> "raise"]

\* C12: when the summarizer call failed and the page's footer holds an
\* element with a disclaimer keyword and a text of 60 to 1500 characters, the
\* text task returns a non-null disclaimer: the text of the first such
\* element, cut to 1000 characters.
C12_FallbackFindsDisclaimer ==
    (SummarizerFailed /\ DisclaimerElements(html_content) # {}) =>
        LET first == CHOOSE i \in DisclaimerElements(html_content) :
                        \A j \in DisclaimerElements(html_content) : i <= j
            cut == IF html_content.footer[first].len < 1000
                   THEN html_content.footer[first].len ELSE 1000
        IN  /\ results["text"].disclaimer # NoneValue
            /\ results["text"].disclaimer.len = cut

\* what the heuristic does return: the meta description as about when its
\* length is 60 to 400, and no disclaimer at all
C12_FallbackNeverFindsDisclaimer ==
    SummarizerFailed =>
        /\ results["text"].disclaimer = NoneValue
        /\ (results["text"].about # NoneValue) =
              (html_content.meta_len >= 60 /\ html_content.meta_len <= 400)

-----------------------------------------------------------------------------
(* Properties of the clusterer's output, checked under SpecColor *)

\* v is an integer nearest to the mean sum / n
IsNearestInteger(v, sum, n) == 2 * Abs(v * n - sum) <= n

\* v is the mean sum / n with its fraction cut off
IsTruncated(v, sum, n) == v * n <= sum /\ sum < (v + 1) * n

\* C13: the colours the clusterer outputs are, cluster by cluster, uppercase
\* 6-digit hex strings whose three channels are the channel means of that
\* cluster, each rounded to the nearest integer (127.6 gives 128).
C13_CentroidsRounded ==
    (cpc # "start" /\ screenshot_colors # <<>>) =>
        \E clustering \in Clusterings(image) :
            /\ Len(clustering) = Len(screenshot_colors)
            /\ \A i \in DOMAIN screenshot_colors :
                  /\ IsUpperHex6(screenshot_colors[i])
                  /\ \A ch \in 1..3 :
                      IsNearestInteger(hex_to_rgb(screenshot_colors[i])[ch],
                                       ChannelSum(image, clustering[i], ch),
                                       PixelCount(image, clustering[i]))

\* what the clusterer's colours are: the channel means with the fraction cut
\* off (127.6 gives 127), as uppercase 6-digit hex strings
C13_CentroidsTruncated ==
    (cpc # "start" /\ screenshot_colors # <<>>) =>
        \E clustering \in Clusterings(image) :
            /\ Len(clustering) = Len(screenshot_colors)
            /\ \A i \in DOMAIN screenshot_colors :
                  /\ IsUpperHex6(screenshot_colors[i])
                  /\ \A ch \in 1..3 :
                      IsTruncated(hex_to_rgb(screenshot_colors[i])[ch],
                                  ChannelSum(image, clustering[i], ch),
                                  PixelCount(image, clustering[i]))

-----------------------------------------------------------------------------
(* Properties of the selection of primary and secondary, checked under
   SpecColor *)

\* saturation * (1 - |brightness - 128| / 128) of a #RRGGBB colour, times 384
\* and as a fraction: (max - min) / max * (384 - |r + g + b - 384|)
RankScore(color) ==
    LET r == 16 * HexValue(color[1]) + HexValue(color[2])
        g == 16 * HexValue(color[3]) + HexValue(color[4])
        b == 16 * HexValue(color[5]) + HexValue(color[6])
        hi == IF r >= g /\ r >= b THEN r ELSE IF g >= b THEN g ELSE b
        lo == IF r <= g /\ r <= b THEN r ELSE IF g <= b THEN g ELSE b
        mid == IF r + g + b >= 384 THEN 768 - (r + g + b) ELSE r + g + b
    IN  IF hi = 0 THEN [num |-> 0, den |-> 1]
        ELSE [num |-> (hi - lo) * mid, den |-> hi]

\* entry i of the list ranks before entry k: a higher score, or the same score
\* and an earlier place
RanksBefore(list, i, k) ==
    LET a == RankScore(list[i])
        b == RankScore(list[k])
    IN  \/ a.num * b.den > b.num * a.den
        \/ a.num * b.den = b.num * a.den /\ i < k

TwoSurvive == Returned /\ Len(filtered_colors) >= 2

C14_WitnessLaterWins ==
    /\ TwoSurvive
    /\ color_result.primary # filtered_colors[1]
    /\ color_result.secondary = filtered_colors[1]

-----------------------------------------------------------------------------
(* Properties of the palette, checked under Spec *)

\* the list is a run of entries of first, in their order there, followed by
\* a run of entries of second, in their order there
IsMergeOf(list, first, second) ==
    \E m \in 0..Len(list) :
        /\ IsSubsequence(SubSeq(list, 1, m), first)
        /\ IsSubsequence(SubSeq(list, m + 1, Len(list)), second)

\* C15: when at least 2 candidates survive filtering, palette is the first 8
\* entries of the filtered list, or all of them when they are fewer, in the
\* list's order, which is the screenshot's colours in their order followed by
\* the markup's in theirs, whatever the scores are.
C15_PaletteIsFilteredPrefix ==
    TwoSurvive =>
        /\ Len(color_result.palette) =
              (IF Len(filtered_colors) < 8 THEN Len(filtered_colors) ELSE 8)
        /\ \A i \in DOMAIN color_result.palette :
              color_result.palette[i] = filtered_colors[i]
        /\ IsMergeOf(filtered_colors, screenshot_colors, css_colors)

\* more than 8 survivors, from the screenshot and from the markup, and the
\* palette's first entry not the primary colour
C15_Witness ==
    /\ TwoSurvive
    /\ Len(filtered_colors) > 8
    /\ Len(color_result.palette) = 8
    /\ \E i \in DOMAIN screenshot_colors : color_result.palette[1] = screenshot_colors[i]
    /\ \E i \in DOMAIN css_colors : color_result.palette[8] = css_colors[i]
    /\ color_result.palette[1] # color_result.primary

\* fewer than 8 survivors, all of them the palette
C15_WitnessAll ==
    /\ TwoSurvive
    /\ Len(filtered_colors) < 8
    /\ color_result.palette = filtered_colors

InPalette(color) ==
    \E i \in DOMAIN color_result.palette : color_result.palette[i] = color

\* C16 as stated: in every colour result the pipeline returns, whatever the
\* number of survivors, primary and secondary are both entries of palette.
C16_PrimarySecondaryInPalette ==
    Returned => InPalette(color_result.primary) /\ InPalette(color_result.secondary)

\* C16 as the code has it: primary and secondary are entries of palette in
\* every result with at most 8 survivors, the fallback included; with more
\* than 8 survivors they are entries of the filtered list, of which palette
\* is the first 8.
C16_InPaletteUpToEightSurvivors ==
    Returned =>
        /\ Len(filtered_colors) <= 8 =>
              InPalette(color_result.primary) /\ InPalette(color_result.secondary)
        /\ Len(filtered_colors) > 8 =>
              /\ \E i \in DOMAIN filtered_colors : filtered_colors[i] = color_result.primary
              /\ \E i \in DOMAIN filtered_colors : filtered_colors[i] = color_result.secondary
              /\ color_result.palette = SubSeq(filtered_colors, 1, 8)

\* survivors, at most 8, the primary colour in the palette behind its first
\* entry
C16_Witness ==
    /\ TwoSurvive
    /\ Len(filtered_colors) <= 8
    /\ InPalette(color_result.primary)
    /\ color_result.primary # color_result.palette[1]

\* more than 8 survivors, the ninth the primary colour and outside the palette
C16_WitnessNinth ==
    /\ TwoSurvive
    /\ Len(filtered_colors) > 8
    /\ color_result.primary = filtered_colors[9]
    /\ ~ InPalette(color_result.primary)

\* the fallback, both of its colours in its palette
C16_WitnessFallback ==
    /\ Returned
    /\ Len(filtered_colors) < 2
    /\ InPalette(color_result.primary) /\ InPalette(color_result.secondary)

-----------------------------------------------------------------------------
(* Properties of the browser page, checked under Spec *)

\* the request has returned: its response, or the HTTP error
RequestReturned == pc \in {"Done", "Failed"}

\* the page is not closed while the logo task may still use it
NotClosedUnderLogoTask == page = "closed" => logo_pc = "done"

\* C17: once the request has returned, with a response or with a failure from
\* rendering or from the aggregation, the page it opened is closed; and the
\* page is never closed while the logo task may still use it.
C17_PageClosedOnEveryPath ==
    /\ RequestReturned => page # "open"
    /\ NotClosedUnderLogoTask

\* the paths on which the page is closed: the response, and the failure of the
\* aggregation; the page is closed only after the three tasks are done
C17_PageClosedAfterGather ==
    /\ (RequestReturned /\ rstep = "done") => page = "closed"
    /\ page = "closed" => AllDone
    /\ NotClosedUnderLogoTask

\* the path on which it is not: a rendering call raised once the page was open
C17_PageLeftOpenByRenderError ==
    (pc = "Failed" /\ rstep \notin {"new_page", "done"}) => page = "open"

====
